---- MODULE Spec2Model ----
(***************************************************************************)
(* Model of llvm/Support/TypeSize.h: the FixedOrScalableQuantity algebra   *)
(* (ElementCount / TypeSize) with the five scale classes None, V, M, N, MN.*)
(*                                                                         *)
(* A quantity is the record [Quantity, Scale].  The magnitude is an        *)
(* unsigned machine word, modelled at WordBits bits (arithmetic modulo     *)
(* 2^WordBits).  An assert of the source is a fatal contract violation:    *)
(* the operation returns nothing and the run ends.                         *)
(***************************************************************************)
EXTENDS Integers, Sequences, FiniteSets, TLC

VARIABLES LHS, RHS, op, out, fatal, initial, hist, so, soArg, soHist, vt

vars == <<LHS, RHS, op, out, fatal, initial, hist, so, soArg, soHist, vt>>

\* the state of the StackOffset and of the LLT calls
otherVars == <<so, soArg, soHist, vt>>

(***************************************************************************)
(* Bounds of the model.                                                    *)
(***************************************************************************)
\* width of ScalarTy in the model (uint64_t / unsigned in the source)
WordBits == 3
\* largest runtime scale factor (vscale, mscale, nscale) considered
MaxScale == 2
\* longest sequence of += / -= applied to one accumulator
MaxOps == 3
\* largest magnitude of an accumulator operand
MaxOperand == 1
\* largest absolute value of a StackOffset component handed to a call
MaxOff == 1
\* longest chain of StackOffset values combined, the first one included
MaxStackOps == 2

Modulus == 2 ^ WordBits

Magnitudes == 0 .. (Modulus - 1)

(***************************************************************************)
(* enum class ScaleID : uint8_t                                            *)
(***************************************************************************)
ScaleID_None == 0
ScaleID_V == 1
ScaleID_M == 2
ScaleID_N == 4
ScaleID_MN == ScaleID_M + ScaleID_N

ScaleID == {ScaleID_None, ScaleID_V, ScaleID_M, ScaleID_N, ScaleID_MN}

\* FixedOrScalableQuantity(ScalarTy Quantity, ScaleID Scale)
get(MinVal, Scale) == [Quantity |-> MinVal, Scale |-> Scale]

\* every value LeafTy::get(MinVal, Scale) can build
Quantities == {get(q, s) : q \in Magnitudes, s \in ScaleID}

\* the default-constructed quantity
ZeroQuantity == get(0, ScaleID_None)

isZero(Q) == Q.Quantity = 0

isNonZero(Q) == Q.Quantity # 0

getKnownMinValue(Q) == Q.Quantity

isScalable(Q) == Q.Scale # ScaleID_None

getScale(Q) == Q.Scale

opEq(A, B) == A.Quantity = B.Quantity /\ A.Scale = B.Scale

opNe(A, B) == A.Quantity # B.Quantity \/ A.Scale # B.Scale

(***************************************************************************)
(* The ordering predicates.                                                *)
(***************************************************************************)
isKnownLT_swapped(L, R) ==
    IF isScalable(L) \/ (R.Scale = L.Scale)
    THEN getKnownMinValue(L) < getKnownMinValue(R)
    ELSE FALSE

isKnownLT(L, R) ==
    IF ~isScalable(L) \/ (R.Scale = L.Scale)
    THEN getKnownMinValue(L) < getKnownMinValue(R)
    ELSE FALSE

isKnownGT_orEqual(L, R) ==
    IF isScalable(L) \/ (R.Scale = L.Scale)
    THEN getKnownMinValue(L) >= getKnownMinValue(R)
    ELSE FALSE

isKnownGT(L, R) ==
    IF isScalable(L) \/ (R.Scale = L.Scale)
    THEN getKnownMinValue(L) > getKnownMinValue(R)
    ELSE FALSE

isKnownLE(L, R) ==
    IF ~isScalable(L) \/ (R.Scale = L.Scale)
    THEN getKnownMinValue(L) <= getKnownMinValue(R)
    ELSE FALSE

isKnownGE_rhsFixed(L, R) ==
    IF ~isScalable(R) \/ isScalable(L)
    THEN getKnownMinValue(L) >= getKnownMinValue(R)
    ELSE FALSE

isKnownGE(L, R) ==
    IF ~isScalable(L) \/ (R.Scale = L.Scale)
    THEN getKnownMinValue(L) >= getKnownMinValue(R)
    ELSE FALSE

(***************************************************************************)
(* Arithmetic.  An operation returns [fatal, val]: fatal is the message of *)
(* the assertion that failed ("" when none did), val the value returned.   *)
(***************************************************************************)
IncompatibleTypes == "Incompatible types"

Returns(Q) == [fatal |-> "", val |-> Q]

Fails(msg) == [fatal |-> msg, val |-> ZeroQuantity]

\* the condition asserted by operator+= and operator-=
Compatible(L, R) == L.Quantity = 0 \/ R.Quantity = 0 \/ L.Scale = R.Scale

opPlusAssign_alwaysRetag(L, R) ==
    IF ~Compatible(L, R)
    THEN Fails(IncompatibleTypes)
    ELSE Returns(get((L.Quantity + R.Quantity) % Modulus, R.Scale))

opPlusAssign_strict(L, R) ==
    IF ~(R.Quantity = 0 \/ L.Scale = R.Scale)
    THEN Fails(IncompatibleTypes)
    ELSE Returns(get((L.Quantity + R.Quantity) % Modulus,
                     IF ~isZero(R) THEN R.Scale ELSE L.Scale))

opPlusAssign(L, R) ==
    IF ~Compatible(L, R)
    THEN Fails(IncompatibleTypes)
    ELSE Returns(get((L.Quantity + R.Quantity) % Modulus,
                     IF ~isZero(R) THEN R.Scale ELSE L.Scale))

opMinusAssign_adds(L, R) ==
    IF ~Compatible(L, R)
    THEN Fails(IncompatibleTypes)
    ELSE Returns(get((L.Quantity + R.Quantity) % Modulus,
                     IF ~isZero(R) THEN R.Scale ELSE L.Scale))

opMinusAssign(L, R) ==
    IF ~Compatible(L, R)
    THEN Fails(IncompatibleTypes)
    ELSE Returns(get((L.Quantity - R.Quantity) % Modulus,
                     IF ~isZero(R) THEN R.Scale ELSE L.Scale))

\* LeafTy Copy = LHS; return Copy += RHS;
opPlus(L, R) == opPlusAssign(L, R)

\* LeafTy Copy = LHS; return Copy -= RHS;
opMinus(L, R) == opMinusAssign(L, R)

\* the expression (a + b) - b
PlusThenMinus(A, B) ==
    LET s == opPlus(A, B)
    IN  IF s.fatal # "" THEN s ELSE opMinus(s.val, B)

(***************************************************************************)
(* Operations on the magnitude alone.                                      *)
(***************************************************************************)
opTimesAssign_zeroIsFixed(L, s) ==
    get((L.Quantity * s) % Modulus, IF s = 0 THEN ScaleID_None ELSE L.Scale)

\* LHS.Quantity *= RHS; return LHS;
opTimesAssign(L, s) == get((L.Quantity * s) % Modulus, L.Scale)

\* LeafTy Copy = LHS; return Copy *= RHS;
opTimes(L, s) == opTimesAssign(L, s)

getWithIncrement(Q, s) == get((Q.Quantity + s) % Modulus, Q.Scale)

multiplyCoefficientBy(Q, s) ==
    get((getKnownMinValue(Q) * s) % Modulus, getScale(Q))

DivisionByZero == "integer division by zero"

\* The set of outcomes of divideCoefficientBy.  Dividing by zero is undefined
\* behaviour: the division traps, or it yields zero (a target whose divide
\* instruction does not trap).
divideCoefficientBy(Q, s) ==
    IF s = 0
    THEN {Fails(DivisionByZero), Returns(get(0, getScale(Q)))}
    ELSE {Returns(get(getKnownMinValue(Q) \div s, getScale(Q)))}

\* llvm::NextPowerOf2: the power of two strictly greater than A
NextPowerOf2(A) ==
    CHOOSE p \in {2 ^ k : k \in 0 .. WordBits} :
        p > A /\ \A k \in 0 .. WordBits : 2 ^ k > A => p <= 2 ^ k

\* the static_cast<ScalarTy> keeps the low WordBits bits
coefficientNextPowerOf2(Q) ==
    get(NextPowerOf2(getKnownMinValue(Q)) % Modulus, getScale(Q))

NotFixed == "Request for a fixed element count on a scalable object"

getFixedValue_neverScalable(Q) ==
    IF ~(~isScalable(Q))
    THEN [fatal |-> NotFixed, val |-> 0]
    ELSE [fatal |-> "", val |-> getKnownMinValue(Q)]

getFixedValue(Q) ==
    IF ~(~isScalable(Q) \/ isZero(Q))
    THEN [fatal |-> NotFixed, val |-> 0]
    ELSE [fatal |-> "", val |-> getKnownMinValue(Q)]

NotAKnownFactor == "Expected RHS to be a known factor!"

\* The set of outcomes of hasKnownScalarFactor.  The remainder is taken only
\* when the scales are equal (&& short-circuits); a remainder by zero is
\* undefined behaviour: it traps, or it yields the dividend (a target whose
\* divide instruction does not trap).
hasKnownScalarFactor(A, B) ==
    IF getScale(A) # getScale(B)
    THEN {[fatal |-> "", val |-> FALSE]}
    ELSE IF getKnownMinValue(B) = 0
    THEN {[fatal |-> DivisionByZero, val |-> FALSE],
          [fatal |-> "", val |-> getKnownMinValue(A) = 0]}
    ELSE {[fatal |-> "",
           val |-> getKnownMinValue(A) % getKnownMinValue(B) = 0]}

\* The set of outcomes of getKnownScalarFactor: the assertion evaluates
\* hasKnownScalarFactor, then the magnitudes are divided (a division by zero
\* that does not trap yields zero).
getKnownScalarFactor(A, B) ==
    {IF h.fatal # ""
     THEN [fatal |-> h.fatal, val |-> 0]
     ELSE IF ~h.val
     THEN [fatal |-> NotAKnownFactor, val |-> 0]
     ELSE IF getKnownMinValue(B) = 0
     THEN [fatal |-> "", val |-> 0]
     ELSE [fatal |-> "",
           val |-> getKnownMinValue(A) \div getKnownMinValue(B)] :
        h \in hasKnownScalarFactor(A, B)}

(***************************************************************************)
(* The scale class queries and ElementCount's classification.              *)
(***************************************************************************)
RECURSIVE BitAnd(_, _)
BitAnd(a, b) ==
    IF a = 0 \/ b = 0
    THEN 0
    ELSE (a % 2) * (b % 2) + 2 * BitAnd(a \div 2, b \div 2)

isScalableV(Q) == BitAnd(Q.Scale, ScaleID_V) = ScaleID_V

isScalableM(Q) == BitAnd(Q.Scale, ScaleID_M) = ScaleID_M

isScalableN(Q) == BitAnd(Q.Scale, ScaleID_N) = ScaleID_N

isScalableMN(Q) == isScalableM(Q) /\ isScalableN(Q)

\* FixedOrScalableQuantity::print: the text written to the stream
print(Q) ==
    (IF isScalableV(Q) THEN "vscale x "
     ELSE IF isScalableM(Q) THEN "mscale x "
     ELSE IF isScalableN(Q) THEN "nscale x "
     ELSE IF isScalableMN(Q) THEN "mnscale x "
     ELSE "")
        \o ToString(getKnownMinValue(Q))

isScalar(Q) == ~isScalable(Q) /\ getKnownMinValue(Q) = 1

isVector(Q) ==
    (isScalableV(Q) /\ getKnownMinValue(Q) # 0) \/ getKnownMinValue(Q) > 1

(***************************************************************************)
(* alignTo(TypeSize Size, uint64_t Align)                                  *)
(***************************************************************************)
AlignIsZero == "Align must be non-zero"

alignTo_addsAlign(Size, Align) ==
    IF ~(Align # 0)
    THEN Fails(AlignIsZero)
    ELSE Returns(get(((((getKnownMinValue(Size) + Align) % Modulus)
                        \div Align) * Align) % Modulus,
                     getScale(Size)))

alignTo_roundsDown(Size, Align) ==
    IF ~(Align # 0)
    THEN Fails(AlignIsZero)
    ELSE Returns(get(((getKnownMinValue(Size) \div Align) * Align) % Modulus,
                     getScale(Size)))

alignTo_boolScalable(Size, Align) ==
    IF ~(Align # 0)
    THEN Fails(AlignIsZero)
    ELSE Returns(get(((((getKnownMinValue(Size) + Align - 1) % Modulus)
                        \div Align) * Align) % Modulus,
                     IF isScalable(Size) THEN ScaleID_V ELSE ScaleID_None))

alignTo(Size, Align) ==
    IF ~(Align # 0)
    THEN Fails(AlignIsZero)
    ELSE Returns(get(((((getKnownMinValue(Size) + Align - 1) % Modulus)
                        \div Align) * Align) % Modulus,
                     getScale(Size)))

\* alignTo(alignTo(Size, Align), Align), with the result of the inner call
AlignToTwice(Size, Align) ==
    LET once == alignTo(Size, Align)
        twice == IF once.fatal # "" THEN once ELSE alignTo(once.val, Align)
    IN  [fatal |-> twice.fatal, val |-> [once |-> once.val, twice |-> twice.val]]

(***************************************************************************)
(* class StackOffset: one fixed and four independently scaled components.  *)
(***************************************************************************)
StackOffset(Fixed, ScalableV, ScalableM, ScalableN, ScalableMN) ==
    [Fixed |-> Fixed, ScalableV |-> ScalableV, ScalableM |-> ScalableM,
     ScalableN |-> ScalableN, ScalableMN |-> ScalableMN]

\* StackOffset() = default
ZeroOffset == StackOffset(0, 0, 0, 0, 0)

Axes == {"Fixed", "ScalableV", "ScalableM", "ScalableN", "ScalableMN"}

SO_getFixed(Fixed) == StackOffset(Fixed, 0, 0, 0, 0)

SO_getScalableV(Scalable) == StackOffset(0, Scalable, 0, 0, 0)

SO_getScalableM(Scalable) == StackOffset(0, 0, Scalable, 0, 0)

SO_getScalableN(Scalable) == StackOffset(0, 0, 0, Scalable, 0)

SO_getScalableMN(Scalable) == StackOffset(0, 0, 0, 0, Scalable)

\* the single-axis factory of an axis
SO_factory(axis, k) ==
    CASE axis = "Fixed" -> SO_getFixed(k)
      [] axis = "ScalableV" -> SO_getScalableV(k)
      [] axis = "ScalableM" -> SO_getScalableM(k)
      [] axis = "ScalableN" -> SO_getScalableN(k)
      [] axis = "ScalableMN" -> SO_getScalableMN(k)

\* StackOffset::get
SO_get(Fixed, ScalableV, ScalableM, ScalableN, ScalableMN) ==
    StackOffset(Fixed, ScalableV, ScalableM, ScalableM, ScalableMN)

SO_plus_foldsMN(A, B) ==
    StackOffset(A.Fixed + B.Fixed, A.ScalableV + B.ScalableV,
                A.ScalableM + B.ScalableM + B.ScalableMN,
                A.ScalableN + B.ScalableN + B.ScalableMN, A.ScalableMN)

\* operator+ and operator+=
SO_plus(A, B) ==
    StackOffset(A.Fixed + B.Fixed, A.ScalableV + B.ScalableV,
                A.ScalableM + B.ScalableM, A.ScalableN + B.ScalableN,
                A.ScalableMN + B.ScalableMN)

\* operator- and operator-=
SO_minus(A, B) ==
    StackOffset(A.Fixed - B.Fixed, A.ScalableV - B.ScalableV,
                A.ScalableM - B.ScalableM, A.ScalableN - B.ScalableN,
                A.ScalableMN - B.ScalableMN)

\* unary operator-
SO_neg(A) ==
    StackOffset(-A.Fixed, -A.ScalableV, -A.ScalableM, -A.ScalableN,
                -A.ScalableMN)

SO_eq_withoutMN(A, B) ==
    /\ A.Fixed = B.Fixed
    /\ A.ScalableV = B.ScalableV
    /\ A.ScalableM = B.ScalableM
    /\ A.ScalableN = B.ScalableN

\* operator==
SO_eq(A, B) ==
    /\ A.Fixed = B.Fixed
    /\ A.ScalableV = B.ScalableV
    /\ A.ScalableM = B.ScalableM
    /\ A.ScalableN = B.ScalableN
    /\ A.ScalableMN = B.ScalableMN

\* operator!=
SO_ne(A, B) ==
    \/ A.Fixed # B.Fixed
    \/ A.ScalableV # B.ScalableV
    \/ A.ScalableM # B.ScalableM
    \/ A.ScalableN # B.ScalableN
    \/ A.ScalableMN # B.ScalableMN

\* explicit operator bool
SO_bool(A) ==
    \/ A.Fixed # 0
    \/ A.ScalableV # 0
    \/ A.ScalableM # 0
    \/ A.ScalableN # 0
    \/ A.ScalableMN # 0

(***************************************************************************)
(* Machine value types.  An MVT is one tag of the closed enumeration; the  *)
(* record holds what the tag's accessors report: its kind, the name of its *)
(* scalar or element type, that type's width in bits, the minimum element  *)
(* count of a vector or the first dimension of a matrix (n), the second    *)
(* dimension of a matrix (n2), and whether it is scalable.                 *)
(***************************************************************************)
MVT(kind, elt, bits, n, n2, scalable) ==
    [kind |-> kind, elt |-> elt, bits |-> bits, n |-> n, n2 |-> n2,
     scalable |-> scalable]

\* MVT::INVALID_SIMPLE_VALUE_TYPE
INVALID_SIMPLE_VALUE_TYPE ==
    MVT("invalid", "INVALID_SIMPLE_VALUE_TYPE", 0, 0, 0, FALSE)

\* MVT::aarch64svcount, the scalable target extension type
aarch64svcount == MVT("scalabletargetext", "aarch64svcount", 16, 0, 0, TRUE)

\* MVT::i1 ... MVT::f64: name and width of the scalar tags
ScalarTypes ==
    {<<"i1", 1>>, <<"i8", 8>>, <<"i16", 16>>, <<"i32", 32>>, <<"i64", 64>>,
     <<"i128", 128>>, <<"f16", 16>>, <<"f32", 32>>, <<"f64", 64>>}

ScalarVT(t) == MVT("scalar", t[1], t[2], 0, 0, FALSE)

\* MVT::v1i8 ... MVT::v16f32 and MVT::nxv1i8 ... MVT::nxv16f32
VectorElementTypes == {<<"i8", 8>>, <<"i32", 32>>, <<"f32", 32>>}

ElementCounts == {1, 2, 4, 8, 16}

VectorVT(t, n, scalable) == MVT("vector", t[1], t[2], n, 0, scalable)

\* MVT::m1x1xi8 ... MVT::m1x16xi32 and MVT::mx1xnx1xi8 ... MVT::mx1xnx16xi32
MatrixElementTypes == {<<"i8", 8>>, <<"i32", 32>>}

MatrixVT(t, n, n2, scalable) == MVT("matrix", t[1], t[2], n, n2, scalable)

MVTs ==
    {INVALID_SIMPLE_VALUE_TYPE, aarch64svcount}
        \cup {ScalarVT(t) : t \in ScalarTypes}
        \cup {VectorVT(t, n, s) :
                t \in VectorElementTypes, n \in ElementCounts, s \in BOOLEAN}
        \cup {MatrixVT(t, 1, n2, s) :
                t \in MatrixElementTypes, n2 \in ElementCounts, s \in BOOLEAN}

MVT_isValid(VT) == VT.kind # "invalid"

MVT_isVector(VT) == VT.kind = "vector"

MVT_isScalableVector(VT) == VT.kind = "vector" /\ VT.scalable

MVT_isMatrix(VT) == VT.kind = "matrix"

MVT_isScalableMatrix(VT) == VT.kind = "matrix" /\ VT.scalable

MVT_isScalableTargetExtVT(VT) == VT.kind = "scalabletargetext"

getVectorMinNumElements(VT) == VT.n

getVectorElementCount(VT) ==
    get(VT.n, IF VT.scalable THEN ScaleID_V ELSE ScaleID_None)

getVectorElementType(VT) == MVT("scalar", VT.elt, VT.bits, 0, 0, FALSE)

getMatrixNumElements(VT) == VT.n

getMatrixNumElements2(VT) == VT.n2

getMatrixElementType(VT) == MVT("scalar", VT.elt, VT.bits, 0, 0, FALSE)

getSizeInBits(VT) == VT.bits

(***************************************************************************)
(* Low-level types.  An LLT is its four classification flags and RawData,  *)
(* held here as the fields init packs into it.  A scalar keeps its size    *)
(* only; a vector its element count and element size; a matrix its two     *)
(* dimensions, its scalable flag and its element size.                     *)
(***************************************************************************)
RawData(size, elements, scalable, elements2, addressSpace) ==
    [ScalarSize |-> size, Elements |-> elements, Scalable |-> scalable,
     Elements2 |-> elements2, AddressSpace |-> addressSpace]

ZeroRawData == RawData(0, 0, FALSE, 0, 0)

FixedZero == get(0, ScaleID_None)

\* LLT::init
init(IsPointer, IsMatrix, IsVector, IsScalar, EC, SizeInBits, AddressSpace, NumElements, NumElements2, IsScalableMatrix) ==
    [IsScalar |-> IsScalar, IsPointer |-> IsPointer, IsVector |-> IsVector,
     IsMatrix |-> IsMatrix,
     RawData |->
        IF IsScalar
        THEN RawData(SizeInBits, 0, FALSE, 0, 0)
        ELSE IF IsMatrix
        THEN RawData(SizeInBits, NumElements, IsScalableMatrix, NumElements2,
                     AddressSpace)
        ELSE RawData(SizeInBits, getKnownMinValue(EC), isScalable(EC), 0,
                     AddressSpace)]

\* LLT::LLT(MVT) with asVector decided by the element count alone
LLT_vectorByCountOnly(VT) ==
    IF MVT_isMatrix(VT)
    THEN LET asMatrix ==
                 \/ getMatrixNumElements(VT) > 1 /\ getMatrixNumElements(VT) > 1
                 \/ MVT_isScalableMatrix(VT)
         IN  init(FALSE, asMatrix, FALSE, ~asMatrix, FixedZero,
                  getSizeInBits(getMatrixElementType(VT)), 0,
                  getMatrixNumElements(VT), getMatrixNumElements2(VT),
                  MVT_isScalableMatrix(VT))
    ELSE IF MVT_isVector(VT)
    THEN LET asVector == getVectorMinNumElements(VT) > 1
         IN  init(FALSE, FALSE, asVector, ~asVector, getVectorElementCount(VT),
                  getSizeInBits(getVectorElementType(VT)), 0, 0, 0, FALSE)
    ELSE IF MVT_isValid(VT) /\ ~MVT_isScalableTargetExtVT(VT)
    THEN init(FALSE, FALSE, FALSE, TRUE, FixedZero, getSizeInBits(VT), 0,
              0, 0, FALSE)
    ELSE [IsScalar |-> FALSE, IsPointer |-> FALSE, IsVector |-> FALSE,
          IsMatrix |-> FALSE, RawData |-> ZeroRawData]

\* LLT::LLT(MVT) taking every valid tag that is no vector or matrix as scalar
LLT_scalarForTargetExt(VT) ==
    IF MVT_isMatrix(VT)
    THEN LET asMatrix ==
                 \/ getMatrixNumElements(VT) > 1 /\ getMatrixNumElements(VT) > 1
                 \/ MVT_isScalableMatrix(VT)
         IN  init(FALSE, asMatrix, FALSE, ~asMatrix, FixedZero,
                  getSizeInBits(getMatrixElementType(VT)), 0,
                  getMatrixNumElements(VT), getMatrixNumElements2(VT),
                  MVT_isScalableMatrix(VT))
    ELSE IF MVT_isVector(VT)
    THEN LET asVector ==
                 \/ getVectorMinNumElements(VT) > 1
                 \/ MVT_isScalableVector(VT)
         IN  init(FALSE, FALSE, asVector, ~asVector, getVectorElementCount(VT),
                  getSizeInBits(getVectorElementType(VT)), 0, 0, 0, FALSE)
    ELSE IF MVT_isValid(VT)
    THEN init(FALSE, FALSE, FALSE, TRUE, FixedZero, getSizeInBits(VT), 0,
              0, 0, FALSE)
    ELSE [IsScalar |-> FALSE, IsPointer |-> FALSE, IsVector |-> FALSE,
          IsMatrix |-> FALSE, RawData |-> ZeroRawData]

\* LLT::LLT(MVT)
LLT(VT) ==
    IF MVT_isMatrix(VT)
    THEN LET asMatrix ==
                 \/ getMatrixNumElements(VT) > 1 /\ getMatrixNumElements(VT) > 1
                 \/ MVT_isScalableMatrix(VT)
         IN  init(FALSE, asMatrix, FALSE, ~asMatrix, FixedZero,
                  getSizeInBits(getMatrixElementType(VT)), 0,
                  getMatrixNumElements(VT), getMatrixNumElements2(VT),
                  MVT_isScalableMatrix(VT))
    ELSE IF MVT_isVector(VT)
    THEN LET asVector ==
                 \/ getVectorMinNumElements(VT) > 1
                 \/ MVT_isScalableVector(VT)
         IN  init(FALSE, FALSE, asVector, ~asVector, getVectorElementCount(VT),
                  getSizeInBits(getVectorElementType(VT)), 0, 0, 0, FALSE)
    ELSE IF MVT_isValid(VT) /\ ~MVT_isScalableTargetExtVT(VT)
    THEN init(FALSE, FALSE, FALSE, TRUE, FixedZero, getSizeInBits(VT), 0,
              0, 0, FALSE)
    ELSE [IsScalar |-> FALSE, IsPointer |-> FALSE, IsVector |-> FALSE,
          IsMatrix |-> FALSE, RawData |-> ZeroRawData]

(***************************************************************************)
(* Structural types, as far as EVT and MVT look at them: a type is its     *)
(* TypeID and what the queries of that kind report (the bit width of an    *)
(* integer, the name of a target extension type, the address space of a    *)
(* pointer, the element type and count of a vector or matrix).             *)
(***************************************************************************)
PrimitiveType(id) == [id |-> id]

IntegerType(BitWidth) == [id |-> "IntegerTyID", bits |-> BitWidth]

PointerType(AddressSpace) == [id |-> "PointerTyID", as |-> AddressSpace]

TargetExtType(name) == [id |-> "TargetExtTyID", name |-> name]

VectorType(ElementType, NumElements, IsScalable) ==
    [id |-> IF IsScalable THEN "ScalableVectorTyID" ELSE "FixedVectorTyID",
     elt |-> ElementType, n |-> NumElements]

ScalableMatrixType(ElementType, NumElts, NumElts2, Scalable) ==
    [id |-> "ScalableMatrixTyID", elt |-> ElementType, n |-> NumElts,
     n2 |-> NumElts2, scalable |-> Scalable]

\* Type::getWasm_ExternrefTy and Type::getWasm_FuncrefTy: opaque pointers in
\* the address spaces 10 and 20
Wasm_ExternrefTy == PointerType(10)

Wasm_FuncrefTy == PointerType(20)

\* no structural type: the LLVMTy of a simple EVT
NoType == [id |-> "nullptr"]

(***************************************************************************)
(* The simple tags beside those of MVTs: the remaining integer and         *)
(* floating-point scalars and the tags known by their name alone.          *)
(***************************************************************************)
IntegerNames == {"i1", "i2", "i4", "i8", "i16", "i32", "i64", "i128"}

AllScalarTypes ==
    ScalarTypes
        \cup {<<"i2", 2>>, <<"i4", 4>>, <<"bf16", 16>>, <<"f80", 80>>,
              <<"f128", 128>>, <<"ppcf128", 128>>}

NamedVT(name) == MVT("named", name, 0, 0, 0, FALSE)

\* the named tags with an entry in the table of getTypeForEVT
TableNames ==
    {"isVoid", "x86mmx", "x86amx", "i64x8", "externref", "funcref",
     "Metadata"}

\* the named tags without one
OtherNames == {"Other", "Glue", "Untyped", "iPTR", "spirvbuiltin"}

\* every tag but INVALID_SIMPLE_VALUE_TYPE, the mark of an extended EVT
SimpleTags ==
    (MVTs \ {INVALID_SIMPLE_VALUE_TYPE})
        \cup {ScalarVT(t) : t \in AllScalarTypes}
        \cup {NamedVT(name) : name \in TableNames \cup OtherNames}

\* an EVT: the simple tag V and the structural type LLVMTy of an extended one
EVT(V, LLVMTy) == [V |-> V, LLVMTy |-> LLVMTy]

SimpleEVT(V) == EVT(V, NoType)

\* EVT::isExtended
isExtended(E) == E.V = INVALID_SIMPLE_VALUE_TYPE /\ E.LLVMTy # NoType

NotExtended == "Type is not extended!"

\* the structural type of a scalar tag, by its name
ScalarTypeOf(name, bits) ==
    CASE name \in IntegerNames -> IntegerType(bits)
      [] name = "f16" -> PrimitiveType("HalfTyID")
      [] name = "bf16" -> PrimitiveType("BFloatTyID")
      [] name = "f32" -> PrimitiveType("FloatTyID")
      [] name = "f64" -> PrimitiveType("DoubleTyID")
      [] name = "f80" -> PrimitiveType("X86_FP80TyID")
      [] name = "f128" -> PrimitiveType("FP128TyID")
      [] name = "ppcf128" -> PrimitiveType("PPC_FP128TyID")

\* EVT::getTypeForEVT: the table, and its default branch for the rest
getTypeForEVT(E) ==
    LET VT == E.V
    IN  CASE VT.kind = "scalar" ->
                [fatal |-> "", val |-> ScalarTypeOf(VT.elt, VT.bits)]
          [] VT.kind = "vector" ->
                [fatal |-> "",
                 val |-> VectorType(ScalarTypeOf(VT.elt, VT.bits), VT.n,
                                    VT.scalable)]
          [] VT.kind = "matrix" ->
                [fatal |-> "",
                 val |-> ScalableMatrixType(ScalarTypeOf(VT.elt, VT.bits),
                                            VT.n, VT.n2, VT.scalable)]
          [] VT = aarch64svcount ->
                [fatal |-> "", val |-> TargetExtType("aarch64.svcount")]
          [] VT = NamedVT("isVoid") ->
                [fatal |-> "", val |-> PrimitiveType("VoidTyID")]
          [] VT = NamedVT("x86mmx") ->
                [fatal |-> "", val |-> PrimitiveType("X86_MMXTyID")]
          [] VT = NamedVT("x86amx") ->
                [fatal |-> "", val |-> PrimitiveType("X86_AMXTyID")]
          [] VT = NamedVT("i64x8") ->
                [fatal |-> "", val |-> IntegerType(512)]
          [] VT = NamedVT("externref") ->
                [fatal |-> "", val |-> Wasm_ExternrefTy]
          [] VT = NamedVT("funcref") ->
                [fatal |-> "", val |-> Wasm_FuncrefTy]
          [] VT = NamedVT("Metadata") ->
                [fatal |-> "", val |-> PrimitiveType("MetadataTyID")]
          [] OTHER ->
                IF isExtended(E)
                THEN [fatal |-> "", val |-> E.LLVMTy]
                ELSE [fatal |-> NotExtended, val |-> E.LLVMTy]

\* MVT::getIntegerVT: the integer tag of a bit width, if there is one
getIntegerVT(BitWidth) ==
    LET tags == {t \in AllScalarTypes : t[1] \in IntegerNames /\ t[2] = BitWidth}
    IN  IF tags = {}
        THEN INVALID_SIMPLE_VALUE_TYPE
        ELSE ScalarVT(CHOOSE t \in tags : TRUE)

\* MVT::getVectorVT: the vector tag of an element tag and a count, if any
getVectorVT(VT, NumElements, IsScalable) ==
    LET tag == VectorVT(<<VT.elt, VT.bits>>, NumElements, IsScalable)
    IN  IF VT.kind = "scalar" /\ tag \in SimpleTags
        THEN tag
        ELSE INVALID_SIMPLE_VALUE_TYPE

\* MVT::getMatrixVT: the matrix tag of an element tag and two dimensions
getMatrixVT(VT, NumElements, NumElements2, IsScalable) ==
    LET tag == MatrixVT(<<VT.elt, VT.bits>>, NumElements, NumElements2,
                        IsScalable)
    IN  IF VT.kind = "scalar" /\ tag \in SimpleTags
        THEN tag
        ELSE INVALID_SIMPLE_VALUE_TYPE

\* the target extension types whose name starts with "spirv."
SpirvNames == {"spirv.Image", "spirv.Sampler"}

UnknownType == "Unknown type!"

UnknownTargetExtType == "Unknown target ext type!"

\* MVT::getVT
RECURSIVE getVT(_, _)
getVT(Ty, HandleUnknown) ==
    CASE Ty.id = "VoidTyID" -> [fatal |-> "", val |-> NamedVT("isVoid")]
      [] Ty.id = "IntegerTyID" ->
            [fatal |-> "", val |-> getIntegerVT(Ty.bits)]
      [] Ty.id = "HalfTyID" ->
            [fatal |-> "", val |-> ScalarVT(<<"f16", 16>>)]
      [] Ty.id = "BFloatTyID" ->
            [fatal |-> "", val |-> ScalarVT(<<"bf16", 16>>)]
      [] Ty.id = "FloatTyID" ->
            [fatal |-> "", val |-> ScalarVT(<<"f32", 32>>)]
      [] Ty.id = "DoubleTyID" ->
            [fatal |-> "", val |-> ScalarVT(<<"f64", 64>>)]
      [] Ty.id = "X86_FP80TyID" ->
            [fatal |-> "", val |-> ScalarVT(<<"f80", 80>>)]
      [] Ty.id = "X86_MMXTyID" -> [fatal |-> "", val |-> NamedVT("x86mmx")]
      [] Ty.id = "TargetExtTyID" ->
            IF Ty.name = "aarch64.svcount"
            THEN [fatal |-> "", val |-> aarch64svcount]
            ELSE IF Ty.name \in SpirvNames
            THEN [fatal |-> "", val |-> NamedVT("spirvbuiltin")]
            ELSE IF HandleUnknown
            THEN [fatal |-> "", val |-> NamedVT("Other")]
            ELSE [fatal |-> UnknownTargetExtType,
                  val |-> INVALID_SIMPLE_VALUE_TYPE]
      [] Ty.id = "X86_AMXTyID" -> [fatal |-> "", val |-> NamedVT("x86amx")]
      [] Ty.id = "FP128TyID" ->
            [fatal |-> "", val |-> ScalarVT(<<"f128", 128>>)]
      [] Ty.id = "PPC_FP128TyID" ->
            [fatal |-> "", val |-> ScalarVT(<<"ppcf128", 128>>)]
      [] Ty.id = "PointerTyID" -> [fatal |-> "", val |-> NamedVT("iPTR")]
      [] Ty.id \in {"FixedVectorTyID", "ScalableVectorTyID"} ->
            LET e == getVT(Ty.elt, FALSE)
            IN  IF e.fatal # ""
                THEN e
                ELSE [fatal |-> "",
                      val |-> getVectorVT(e.val, Ty.n,
                                          Ty.id = "ScalableVectorTyID")]
      [] Ty.id = "ScalableMatrixTyID" ->
            LET e == getVT(Ty.elt, FALSE)
            IN  IF e.fatal # ""
                THEN e
                ELSE [fatal |-> "",
                      val |-> getMatrixVT(e.val, Ty.n, Ty.n2, Ty.scalable)]
      [] OTHER ->
            IF HandleUnknown
            THEN [fatal |-> "", val |-> NamedVT("Other")]
            ELSE [fatal |-> UnknownType, val |-> INVALID_SIMPLE_VALUE_TYPE]

\* EVT::getExtendedIntegerVT
getExtendedIntegerVT(BitWidth) ==
    LET VT == EVT(INVALID_SIMPLE_VALUE_TYPE, IntegerType(BitWidth))
    IN  IF isExtended(VT)
        THEN [fatal |-> "", val |-> VT]
        ELSE [fatal |-> NotExtended, val |-> VT]

\* EVT::getExtendedVectorVT
getExtendedVectorVT(VT, NumElements, IsScalable) ==
    LET elt == getTypeForEVT(VT)
        ResultVT == EVT(INVALID_SIMPLE_VALUE_TYPE,
                        VectorType(elt.val, NumElements, IsScalable))
    IN  IF elt.fatal # ""
        THEN [fatal |-> elt.fatal, val |-> ResultVT]
        ELSE IF isExtended(ResultVT)
        THEN [fatal |-> "", val |-> ResultVT]
        ELSE [fatal |-> NotExtended, val |-> ResultVT]

\* EVT::getExtendedMatrixVT
getExtendedMatrixVT(VT, NumElements, NumElements2, IsScalable) ==
    LET elt == getTypeForEVT(VT)
        ResultVT == EVT(INVALID_SIMPLE_VALUE_TYPE,
                        ScalableMatrixType(elt.val, NumElements, NumElements2,
                                           IsScalable))
    IN  IF elt.fatal # ""
        THEN [fatal |-> elt.fatal, val |-> ResultVT]
        ELSE IF isExtended(ResultVT)
        THEN [fatal |-> "", val |-> ResultVT]
        ELSE [fatal |-> NotExtended, val |-> ResultVT]

\* EVT::getIntegerVT: the simple tag of the width, else the extended type
EVT_getIntegerVT(BitWidth) ==
    LET M == getIntegerVT(BitWidth)
    IN  IF M # INVALID_SIMPLE_VALUE_TYPE
        THEN [fatal |-> "", val |-> SimpleEVT(M)]
        ELSE getExtendedIntegerVT(BitWidth)

\* EVT::getVectorVT: the simple tag of the vector, else the extended type
EVT_getVectorVT(VT, NumElements, IsScalable) ==
    LET M == getVectorVT(VT.V, NumElements, IsScalable)
    IN  IF M # INVALID_SIMPLE_VALUE_TYPE
        THEN [fatal |-> "", val |-> SimpleEVT(M)]
        ELSE getExtendedVectorVT(VT, NumElements, IsScalable)

\* EVT::getMatrixVT: the simple tag of the matrix, else the extended type
EVT_getMatrixVT(VT, NumElements, NumElements2, IsScalable) ==
    LET M == getMatrixVT(VT.V, NumElements, NumElements2, IsScalable)
    IN  IF M # INVALID_SIMPLE_VALUE_TYPE
        THEN [fatal |-> "", val |-> SimpleEVT(M)]
        ELSE getExtendedMatrixVT(VT, NumElements, NumElements2, IsScalable)

\* EVT::getEVT
RECURSIVE getEVT(_, _)
getEVT(Ty, HandleUnknown) ==
    CASE Ty.id = "IntegerTyID" -> EVT_getIntegerVT(Ty.bits)
      [] Ty.id \in {"FixedVectorTyID", "ScalableVectorTyID"} ->
            LET e == getEVT(Ty.elt, FALSE)
            IN  IF e.fatal # ""
                THEN e
                ELSE EVT_getVectorVT(e.val, Ty.n,
                                     Ty.id = "ScalableVectorTyID")
      [] Ty.id = "ScalableMatrixTyID" ->
            LET e == getEVT(Ty.elt, FALSE)
            IN  IF e.fatal # ""
                THEN e
                ELSE EVT_getMatrixVT(e.val, Ty.n, Ty.n2, Ty.scalable)
      [] OTHER ->
            LET M == getVT(Ty, HandleUnknown)
            IN  [fatal |-> M.fatal, val |-> SimpleEVT(M.val)]

UnrecognizedExtendedType == "Unrecognized extended type!"

\* VectorType::getPrimitiveSizeInBits: count times element size
getPrimitiveSizeInBits(Ty) ==
    LET eltBits ==
            CASE Ty.elt.id = "IntegerTyID" -> Ty.elt.bits
              [] Ty.elt.id \in {"HalfTyID", "BFloatTyID"} -> 16
              [] Ty.elt.id = "FloatTyID" -> 32
              [] Ty.elt.id = "DoubleTyID" -> 64
              [] Ty.elt.id = "X86_FP80TyID" -> 80
              [] Ty.elt.id \in {"FP128TyID", "PPC_FP128TyID"} -> 128
              [] OTHER -> 0
    IN  get(Ty.n * eltBits,
            IF Ty.id = "ScalableVectorTyID" THEN ScaleID_V ELSE ScaleID_None)

\* the result of getExtendedSizeInBits reporting every extended type as
\* one bit wide
getExtendedSizeInBits_oneBit(E) ==
    IF ~isExtended(E)
    THEN [fatal |-> NotExtended, val |-> ZeroQuantity]
    ELSE [fatal |-> "", val |-> get(1, ScaleID_None)]

\* EVT::getExtendedSizeInBits
getExtendedSizeInBits(E) ==
    IF ~isExtended(E)
    THEN [fatal |-> NotExtended, val |-> ZeroQuantity]
    ELSE IF E.LLVMTy.id = "IntegerTyID"
    THEN [fatal |-> "", val |-> get(E.LLVMTy.bits, ScaleID_None)]
    ELSE IF E.LLVMTy.id \in {"FixedVectorTyID", "ScalableVectorTyID"}
    THEN [fatal |-> "", val |-> getPrimitiveSizeInBits(E.LLVMTy)]
    ELSE [fatal |-> UnrecognizedExtendedType, val |-> ZeroQuantity]

\* EVT::isMatrix, isScalableMatrix, isVector, isScalableVector, isInteger and
\* isFloatingPoint: asked of the tag of a simple EVT, of the structural type
\* of an extended one
EVT_isMatrix(E) ==
    IF isExtended(E)
    THEN E.LLVMTy.id = "ScalableMatrixTyID"
    ELSE MVT_isMatrix(E.V)

EVT_isScalableMatrix(E) ==
    IF isExtended(E)
    THEN E.LLVMTy.id = "ScalableMatrixTyID" /\ E.LLVMTy.scalable
    ELSE MVT_isScalableMatrix(E.V)

EVT_isVector(E) ==
    IF isExtended(E)
    THEN E.LLVMTy.id \in {"FixedVectorTyID", "ScalableVectorTyID"}
    ELSE MVT_isVector(E.V)

EVT_isScalableVector(E) ==
    IF isExtended(E)
    THEN E.LLVMTy.id = "ScalableVectorTyID"
    ELSE MVT_isScalableVector(E.V)

EVT_isInteger(E) ==
    IF isExtended(E)
    THEN E.LLVMTy.id = "IntegerTyID"
    ELSE E.V.kind = "scalar" /\ E.V.elt \in IntegerNames

EVT_isFloatingPoint(E) ==
    IF isExtended(E)
    THEN E.LLVMTy.id \in {"HalfTyID", "BFloatTyID", "FloatTyID", "DoubleTyID",
                          "X86_FP80TyID", "FP128TyID", "PPC_FP128TyID"}
    ELSE E.V.kind = "scalar" /\ E.V.elt \notin IntegerNames

\* EVT::getVectorElementType and EVT::getMatrixElementType
EVT_getElementType(E) ==
    IF isExtended(E)
    THEN getEVT(E.LLVMTy.elt, FALSE).val
    ELSE SimpleEVT(getVectorElementType(E.V))

\* EVT::getVectorElementCount().getKnownMinValue() and EVT::getMatrixNumElems
EVT_getNumElems(E) == IF isExtended(E) THEN E.LLVMTy.n ELSE E.V.n

\* EVT::getMatrixNumElems2
EVT_getNumElems2(E) == IF isExtended(E) THEN E.LLVMTy.n2 ELSE E.V.n2

\* EVT::getSizeInBits of a scalar
EVT_getSizeInBits(E) ==
    IF isExtended(E)
    THEN getKnownMinValue(getExtendedSizeInBits(E).val)
    ELSE getSizeInBits(E.V)

InvalidEVT == "Invalid EVT!"

\* the tags EVT::getEVTString names in a case of its own, with their strings
NamedStrings ==
    [bf16 |-> "bf16", ppcf128 |-> "ppcf128", isVoid |-> "isVoid",
     Other |-> "ch", Glue |-> "glue", x86mmx |-> "x86mmx",
     x86amx |-> "x86amx", i64x8 |-> "i64x8", Metadata |-> "Metadata",
     Untyped |-> "Untyped", funcref |-> "funcref", externref |-> "externref",
     aarch64svcount |-> "aarch64svcount", spirvbuiltin |-> "spirvbuiltin"]

\* EVT::getEVTString
RECURSIVE getEVTString(_)
getEVTString(E) ==
    IF ~isExtended(E) /\ E.V.elt \in DOMAIN NamedStrings
                      /\ E.V.kind \in {"scalar", "named", "scalabletargetext"}
    THEN [fatal |-> "", val |-> NamedStrings[E.V.elt]]
    ELSE IF EVT_isMatrix(E)
    THEN LET elt == getEVTString(EVT_getElementType(E))
         IN  [fatal |-> elt.fatal,
              val |-> IF EVT_isScalableMatrix(E)
                      THEN "mx" \o ToString(EVT_getNumElems(E)) \o "xnx"
                           \o ToString(EVT_getNumElems2(E)) \o "x" \o elt.val
                      ELSE "m" \o ToString(EVT_getNumElems(E)) \o "x"
                           \o elt.val]
    ELSE IF EVT_isVector(E)
    THEN LET elt == getEVTString(EVT_getElementType(E))
         IN  [fatal |-> elt.fatal,
              val |-> (IF EVT_isScalableVector(E) THEN "nxv" ELSE "v")
                      \o ToString(EVT_getNumElems(E)) \o elt.val]
    ELSE IF EVT_isInteger(E)
    THEN [fatal |-> "", val |-> "i" \o ToString(EVT_getSizeInBits(E))]
    ELSE IF EVT_isFloatingPoint(E)
    THEN [fatal |-> "", val |-> "f" \o ToString(EVT_getSizeInBits(E))]
    ELSE [fatal |-> InvalidEVT, val |-> ""]

\* no quantity call is under way
NoQuantityCalls ==
    /\ LHS = ZeroQuantity
    /\ RHS = ZeroQuantity
    /\ initial = ZeroQuantity
    /\ hist = <<>>

\* no StackOffset and no LLT call is under way
NoOtherCalls ==
    /\ so = ZeroOffset
    /\ soArg = ZeroOffset
    /\ soHist = <<>>
    /\ vt = INVALID_SIMPLE_VALUE_TYPE

(***************************************************************************)
(* The calls on one pair of quantities.  LHS is the object the compound    *)
(* assignments update in place; RHS is the other operand.                  *)
(***************************************************************************)
Init ==
    /\ LHS \in Quantities
    /\ RHS \in Quantities
    /\ op = "init"
    /\ out = FALSE
    /\ fatal = ""
    /\ initial = ZeroQuantity
    /\ hist = <<>>
    /\ NoOtherCalls

Query(name, value) ==
    /\ fatal = ""
    /\ op' = name
    /\ out' = value
    /\ UNCHANGED <<LHS, RHS, fatal, initial, hist, otherVars>>

CallIsKnownLT == Query("isKnownLT", isKnownLT(LHS, RHS))

CallIsKnownGT == Query("isKnownGT", isKnownGT(LHS, RHS))

CallIsKnownLE == Query("isKnownLE", isKnownLE(LHS, RHS))

CallIsKnownGE == Query("isKnownGE", isKnownGE(LHS, RHS))

\* a binary operator returning a new quantity, or dying in its assertion
Binary(name, r) ==
    /\ fatal = ""
    /\ op' = name
    /\ out' = r.val
    /\ fatal' = r.fatal
    /\ UNCHANGED <<LHS, RHS, initial, hist, otherVars>>

CallPlus == Binary("+", opPlus(LHS, RHS))

CallMinus == Binary("-", opMinus(LHS, RHS))

CallPlusThenMinus == Binary("(a+b)-b", PlusThenMinus(LHS, RHS))

\* out = [ab, ba]: the two sums a + b and b + a of one pair
CallPlusBothWays ==
    LET ab == opPlus(LHS, RHS)
        ba == opPlus(RHS, LHS)
    IN  /\ fatal = ""
        /\ op' = "a+b,b+a"
        /\ out' = [ab |-> ab.val, ba |-> ba.val]
        /\ fatal' = IF ab.fatal # "" THEN ab.fatal ELSE ba.fatal
        /\ UNCHANGED <<LHS, RHS, initial, hist, otherVars>>

\* a compound assignment: LHS is updated in place unless the assertion fails
Compound(name, r, operand) ==
    /\ fatal = ""
    /\ op' = name
    /\ fatal' = r.fatal
    /\ LHS' = IF r.fatal = "" THEN r.val ELSE LHS
    /\ out' = LHS'
    /\ RHS' = operand
    /\ UNCHANGED <<initial, otherVars>>

CallPlusAssign ==
    /\ Compound("+=", opPlusAssign(LHS, RHS), RHS)
    /\ UNCHANGED hist

CallMinusAssign ==
    /\ Compound("-=", opMinusAssign(LHS, RHS), RHS)
    /\ UNCHANGED hist

(***************************************************************************)
(* Calls taking a plain scalar: the scalar passed is RHS's magnitude.      *)
(***************************************************************************)
CallTimes == Binary("*", Returns(opTimes(LHS, RHS.Quantity)))

CallTimesAssign ==
    /\ Compound("*=", Returns(opTimesAssign(LHS, RHS.Quantity)), RHS)
    /\ UNCHANGED hist

CallGetWithIncrement ==
    Binary("getWithIncrement", Returns(getWithIncrement(LHS, RHS.Quantity)))

CallMultiplyCoefficientBy ==
    Binary("multiplyCoefficientBy",
           Returns(multiplyCoefficientBy(LHS, RHS.Quantity)))

CallDivideCoefficientBy ==
    \E r \in divideCoefficientBy(LHS, RHS.Quantity) :
        Binary("divideCoefficientBy", r)

CallCoefficientNextPowerOf2 ==
    Binary("coefficientNextPowerOf2", Returns(coefficientNextPowerOf2(LHS)))

CallGetFixedValue == Binary("getFixedValue", getFixedValue(LHS))

CallAlignTo == Binary("alignTo", alignTo(LHS, RHS.Quantity))

CallAlignToTwice == Binary("alignTo,alignTo", AlignToTwice(LHS, RHS.Quantity))

CallIsScalar == Query("isScalar", isScalar(LHS))

CallIsVector == Query("isVector", isVector(LHS))

\* out = [lhs, rhs]: the texts printed for the two quantities
CallPrint == Query("print", [lhs |-> print(LHS), rhs |-> print(RHS)])

CallHasKnownScalarFactor ==
    \E r \in hasKnownScalarFactor(LHS, RHS) :
        Binary("hasKnownScalarFactor", r)

CallGetKnownScalarFactor ==
    \E r \in getKnownScalarFactor(LHS, RHS) :
        Binary("getKnownScalarFactor", r)

\* out: the four predicates on (LHS, RHS) and on (RHS, LHS)
CallOrderings ==
    Query("orderings",
          [lt_ab |-> isKnownLT(LHS, RHS), gt_ab |-> isKnownGT(LHS, RHS),
           le_ab |-> isKnownLE(LHS, RHS), ge_ab |-> isKnownGE(LHS, RHS),
           lt_ba |-> isKnownLT(RHS, LHS), gt_ba |-> isKnownGT(RHS, LHS),
           le_ba |-> isKnownLE(RHS, LHS), ge_ba |-> isKnownGE(RHS, LHS)])

Next ==
    \/ CallIsKnownLT
    \/ CallIsKnownGT
    \/ CallIsKnownLE
    \/ CallIsKnownGE
    \/ CallPlus
    \/ CallMinus
    \/ CallPlusThenMinus
    \/ CallPlusBothWays
    \/ CallPlusAssign
    \/ CallMinusAssign
    \/ CallTimes
    \/ CallTimesAssign
    \/ CallGetWithIncrement
    \/ CallMultiplyCoefficientBy
    \/ CallDivideCoefficientBy
    \/ CallCoefficientNextPowerOf2
    \/ CallGetFixedValue
    \/ CallAlignTo
    \/ CallAlignToTwice
    \/ CallIsScalar
    \/ CallIsVector
    \/ CallPrint
    \/ CallHasKnownScalarFactor
    \/ CallGetKnownScalarFactor
    \/ CallOrderings

Spec == Init /\ [][Next]_vars

(***************************************************************************)
(* An accumulator updated by a sequence of += and -= with fresh operands.  *)
(* hist is the sequence of operands applied so far, initial the value the  *)
(* accumulator started from.                                               *)
(***************************************************************************)
Operands == {get(q, s) : q \in 0 .. MaxOperand, s \in ScaleID}

InitAcc ==
    /\ LHS \in Operands
    /\ RHS = ZeroQuantity
    /\ op = "init"
    /\ out = LHS
    /\ fatal = ""
    /\ initial = LHS
    /\ hist = <<>>
    /\ NoOtherCalls

AccPlusAssign ==
    \E R \in Operands :
        /\ Len(hist) < MaxOps
        /\ Compound("+=", opPlusAssign(LHS, R), R)
        /\ hist' = Append(hist, R)

AccMinusAssign ==
    \E R \in Operands :
        /\ Len(hist) < MaxOps
        /\ Compound("-=", opMinusAssign(LHS, R), R)
        /\ hist' = Append(hist, R)

NextAcc ==
    \/ AccPlusAssign
    \/ AccMinusAssign

SpecAcc == InitAcc /\ [][NextAcc]_vars

(***************************************************************************)
(* A StackOffset built by a single-axis factory and then combined with     *)
(* further factory results by +, -, += and -=.  soHist records each        *)
(* factory call (its axis and argument) and whether its result was         *)
(* subtracted.                                                             *)
(***************************************************************************)
OffsetValues == ((0 - MaxOff) .. MaxOff) \cup {2, 8}

InitStack ==
    /\ NoQuantityCalls
    /\ vt = INVALID_SIMPLE_VALUE_TYPE
    /\ op = "init"
    /\ out = FALSE
    /\ fatal = ""
    /\ \E axis \in Axes, k \in OffsetValues :
        /\ so = SO_factory(axis, k)
        /\ soArg = so
        /\ soHist = <<[neg |-> FALSE, axis |-> axis, k |-> k]>>

\* so = so <operator> factory(axis, k)
StackStep(name, neg, axis, k, result) ==
    /\ Len(soHist) < MaxStackOps
    /\ op' = name
    /\ soArg' = SO_factory(axis, k)
    /\ so' = result
    /\ out' = so'
    /\ soHist' = Append(soHist, [neg |-> neg, axis |-> axis, k |-> k])
    /\ UNCHANGED <<LHS, RHS, initial, hist, fatal, vt>>

StackPlus ==
    \E axis \in Axes, k \in OffsetValues :
        StackStep("+", FALSE, axis, k, SO_plus(so, SO_factory(axis, k)))

StackMinus ==
    \E axis \in Axes, k \in OffsetValues :
        StackStep("-", TRUE, axis, k, SO_minus(so, SO_factory(axis, k)))

StackPlusAssign ==
    \E axis \in Axes, k \in OffsetValues :
        StackStep("+=", FALSE, axis, k, SO_plus(so, SO_factory(axis, k)))

StackMinusAssign ==
    \E axis \in Axes, k \in OffsetValues :
        StackStep("-=", TRUE, axis, k, SO_minus(so, SO_factory(axis, k)))

NextStack ==
    \/ StackPlus
    \/ StackMinus
    \/ StackPlusAssign
    \/ StackMinusAssign

SpecStack == InitStack /\ [][NextStack]_vars

(***************************************************************************)
(* Comparisons of two StackOffsets: so is any offset, soArg is so itself,  *)
(* its negation, the default offset, or so moved by one along one axis.    *)
(***************************************************************************)
Components == (0 - MaxOff) .. MaxOff

Offsets ==
    {StackOffset(f, v, m, n, mn) :
        f \in Components, v \in Components, m \in Components,
        n \in Components, mn \in Components}

Neighbours(A) ==
    {A, ZeroOffset, SO_neg(A)}
        \cup {SO_plus(A, SO_factory(axis, 1)) : axis \in Axes}
        \cup {SO_minus(A, SO_factory(axis, 1)) : axis \in Axes}

InitCmp ==
    /\ NoQuantityCalls
    /\ vt = INVALID_SIMPLE_VALUE_TYPE
    /\ op = "init"
    /\ out = FALSE
    /\ fatal = ""
    /\ soHist = <<>>
    /\ so \in Offsets
    /\ soArg \in Neighbours(so)

StackQuery(name, value) ==
    /\ op' = name
    /\ out' = value
    /\ UNCHANGED <<LHS, RHS, initial, hist, fatal, so, soArg, soHist, vt>>

CmpEq == StackQuery("==", SO_eq(so, soArg))

CmpNe == StackQuery("!=", SO_ne(so, soArg))

CmpBool == StackQuery("bool", SO_bool(so))

\* x + (-x), and whether it compares equal to StackOffset()
CmpPlusNeg ==
    LET sum == SO_plus(so, SO_neg(so))
    IN  StackQuery("x+(-x)", [sum |-> sum, isDefault |-> SO_eq(sum, ZeroOffset)])

\* StackOffset::get called with the five components of so as its arguments
CmpGet ==
    StackQuery("get", SO_get(so.Fixed, so.ScalableV, so.ScalableM,
                             so.ScalableN, so.ScalableMN))

NextCmp ==
    \/ CmpGet
    \/ CmpEq
    \/ CmpNe
    \/ CmpBool
    \/ CmpPlusNeg

SpecCmp == InitCmp /\ [][NextCmp]_vars

(***************************************************************************)
(* The construction of a low-level type from one machine value type.       *)
(***************************************************************************)
InitLLT ==
    /\ NoQuantityCalls
    /\ so = ZeroOffset
    /\ soArg = ZeroOffset
    /\ soHist = <<>>
    /\ op = "init"
    /\ out = FALSE
    /\ fatal = ""
    /\ vt \in MVTs

CallLLT ==
    /\ op' = "LLT"
    /\ out' = LLT(vt)
    /\ UNCHANGED <<LHS, RHS, initial, hist, fatal, so, soArg, soHist, vt>>

NextLLT == CallLLT

SpecLLT == InitLLT /\ [][NextLLT]_vars

(***************************************************************************)
(* The conversions between tags and structural types.  They are pure and   *)
(* keep no state, so a behaviour is one call: the call draws its arguments *)
(* and leaves them in out beside its result; vt is the tag it was about.   *)
(***************************************************************************)
IntegerWidths == {1, 2, 4, 8, 16, 17, 24, 32, 64, 128, 512}

PrimitiveTypeIDs ==
    {"VoidTyID", "HalfTyID", "BFloatTyID", "FloatTyID", "DoubleTyID",
     "X86_FP80TyID", "X86_MMXTyID", "X86_AMXTyID", "FP128TyID",
     "PPC_FP128TyID", "MetadataTyID", "LabelTyID", "TokenTyID"}

TargetExtNames == {"aarch64.svcount", "riscv.vector.tuple"} \cup SpirvNames

ScalarInputTypes ==
    {PrimitiveType(id) : id \in PrimitiveTypeIDs}
        \cup {IntegerType(w) : w \in IntegerWidths}
        \cup {PointerType(0), Wasm_ExternrefTy, Wasm_FuncrefTy}
        \cup {TargetExtType(name) : name \in TargetExtNames}

\* vectors and matrices with and without a tag: of i8 also with 3 elements,
\* of i17, of pointers and of an unknown target extension type
VectorInputTypes ==
    {VectorType(IntegerType(8), n, s) : n \in {1, 2, 3, 4}, s \in BOOLEAN}
        \cup {VectorType(e, n, s) :
                e \in {IntegerType(32), PrimitiveType("FloatTyID")},
                n \in {1, 2, 4}, s \in BOOLEAN}
        \cup {VectorType(e, 2, s) :
                e \in {IntegerType(17), PointerType(0),
                       TargetExtType("riscv.vector.tuple")},
                s \in BOOLEAN}

MatrixInputTypes ==
    {ScalableMatrixType(e, n, n2, s) :
        e \in {IntegerType(8), IntegerType(17)}, n \in {1, 2}, n2 \in {1, 4},
        s \in BOOLEAN}

InputTypes == ScalarInputTypes \cup VectorInputTypes \cup MatrixInputTypes

InitEVT ==
    /\ NoQuantityCalls
    /\ NoOtherCalls
    /\ op = "init"
    /\ out = FALSE
    /\ fatal = ""

EVTCall(name, tag, args, r) ==
    /\ op = "init"
    /\ op' = name
    /\ vt' = tag
    /\ out' = [args |-> args, res |-> r.val]
    /\ fatal' = r.fatal
    /\ UNCHANGED <<LHS, RHS, initial, hist, so, soArg, soHist>>

\* getTypeForEVT of a simple tag, and of the extended EVT getEVT made of a type
CallGetTypeForEVT ==
    \/ \E t \in SimpleTags :
            EVTCall("getTypeForEVT", t, SimpleEVT(t),
                    getTypeForEVT(SimpleEVT(t)))
    \/ \E Ty \in InputTypes :
            LET e == getEVT(Ty, FALSE)
            IN  /\ e.fatal = ""
                /\ isExtended(e.val)
                /\ EVTCall("getTypeForEVT", e.val.V, e.val,
                           getTypeForEVT(e.val))

\* MVT::getVT(EVT(t).getTypeForEVT(ctx), /*HandleUnknown=*/false)
CallRoundTrip ==
    \E t \in SimpleTags :
        LET Ty == getTypeForEVT(SimpleEVT(t))
        IN  EVTCall("getVT(getTypeForEVT)", t, SimpleEVT(t),
                    IF Ty.fatal # ""
                    THEN [fatal |-> Ty.fatal, val |-> INVALID_SIMPLE_VALUE_TYPE]
                    ELSE getVT(Ty.val, FALSE))

CallGetVT ==
    \E Ty \in InputTypes, HandleUnknown \in BOOLEAN :
        LET r == getVT(Ty, HandleUnknown)
        IN  EVTCall("getVT", r.val,
                    [Ty |-> Ty, HandleUnknown |-> HandleUnknown], r)

CallGetEVT ==
    \E Ty \in InputTypes, HandleUnknown \in BOOLEAN :
        LET r == getEVT(Ty, HandleUnknown)
        IN  EVTCall("getEVT", r.val.V,
                    [Ty |-> Ty, HandleUnknown |-> HandleUnknown], r)

\* getExtendedSizeInBits of the extended EVT getEVT made of a type
CallGetExtendedSizeInBits ==
    \E Ty \in InputTypes :
        LET e == getEVT(Ty, FALSE)
        IN  /\ e.fatal = ""
            /\ isExtended(e.val)
            /\ EVTCall("getExtendedSizeInBits", e.val.V,
                       [Ty |-> Ty, E |-> e.val],
                       getExtendedSizeInBits(e.val))

\* getEVTString of two simple tags
CallGetEVTString ==
    \E t \in SimpleTags, u \in SimpleTags :
        LET a == getEVTString(SimpleEVT(t))
            b == getEVTString(SimpleEVT(u))
        IN  EVTCall("getEVTString", t, [a |-> t, b |-> u],
                    [fatal |-> IF a.fatal # "" THEN a.fatal ELSE b.fatal,
                     val |-> [a |-> a.val, b |-> b.val]])

NextEVT ==
    \/ CallGetTypeForEVT
    \/ CallRoundTrip
    \/ CallGetVT
    \/ CallGetEVT
    \/ CallGetExtendedSizeInBits
    \/ CallGetEVTString

SpecEVT == InitEVT /\ [][NextEVT]_vars

(***************************************************************************)
(* What a quantity stands for at run time: its magnitude times the scale   *)
(* factor of its class, each factor being at least 1.  MN scales with the  *)
(* product of the M and the N factor.                                      *)
(***************************************************************************)
ScaleFactors == 1 .. MaxScale

ScaleFactor(s, sv, sm, sn) ==
    CASE s = ScaleID_None -> 1
      [] s = ScaleID_V -> sv
      [] s = ScaleID_M -> sm
      [] s = ScaleID_N -> sn
      [] s = ScaleID_MN -> sm * sn

RuntimeValue(Q, sv, sm, sn) == Q.Quantity * ScaleFactor(Q.Scale, sv, sm, sn)

OrderingCalls == {"isKnownLT", "isKnownGT", "isKnownLE", "isKnownGE"}

\* the operand is scale-tagged and the other one carries another tag (or none)
TaggedAgainstOther == isScalable(LHS) /\ RHS.Scale # LHS.Scale

(***************************************************************************)
(* C1: isKnownGE is sound: when isKnownGE(a, b) returns true, a is at      *)
(* least b at run time for every assignment of the scale factors.          *)
(***************************************************************************)
C1_isKnownGE_sound ==
    (op = "isKnownGE" /\ out = TRUE) =>
        \A sv \in ScaleFactors, sm \in ScaleFactors, sn \in ScaleFactors :
            RuntimeValue(LHS, sv, sm, sn) >= RuntimeValue(RHS, sv, sm, sn)

(***************************************************************************)
(* C2: isKnownGT is sound: when isKnownGT(a, b) returns true, a is         *)
(* strictly greater than b at run time for every assignment of the scale   *)
(* factors.                                                                *)
(***************************************************************************)
C2_isKnownGT_sound ==
    (op = "isKnownGT" /\ out = TRUE) =>
        \A sv \in ScaleFactors, sm \in ScaleFactors, sn \in ScaleFactors :
            RuntimeValue(LHS, sv, sm, sn) > RuntimeValue(RHS, sv, sm, sn)

(***************************************************************************)
(* C3: isKnownLT and isKnownLE are sound: when isKnownLT(a, b) (resp.      *)
(* isKnownLE(a, b)) returns true, a is less than (resp. at most) b at run  *)
(* time for every assignment of the scale factors.                         *)
(***************************************************************************)
C3_isKnownLT_LE_sound ==
    /\ (op = "isKnownLT" /\ out = TRUE) =>
        \A sv \in ScaleFactors, sm \in ScaleFactors, sn \in ScaleFactors :
            RuntimeValue(LHS, sv, sm, sn) < RuntimeValue(RHS, sv, sm, sn)
    /\ (op = "isKnownLE" /\ out = TRUE) =>
        \A sv \in ScaleFactors, sm \in ScaleFactors, sn \in ScaleFactors :
            RuntimeValue(LHS, sv, sm, sn) <= RuntimeValue(RHS, sv, sm, sn)

\* isKnownLT has answered true for a fixed quantity against an MN-scaled one
C3_witness ==
    /\ op = "isKnownLT"
    /\ out = TRUE
    /\ ~isScalable(LHS)
    /\ RHS.Scale = ScaleID_MN

(***************************************************************************)
(* C4: when a is scale-tagged and b carries another tag (or none), each of *)
(* the four ordering predicates returns false, whatever the magnitudes.    *)
(***************************************************************************)
C4_tagged_against_other_all_false ==
    (op \in OrderingCalls /\ TaggedAgainstOther) => out = FALSE

C6_same_tag_compares_magnitudes ==
    LHS.Scale = RHS.Scale =>
        /\ op = "isKnownLT" => out = (LHS.Quantity < RHS.Quantity)
        /\ op = "isKnownGT" => out = (LHS.Quantity > RHS.Quantity)
        /\ op = "isKnownLE" => out = (LHS.Quantity <= RHS.Quantity)
        /\ op = "isKnownGE" => out = (LHS.Quantity >= RHS.Quantity)

\* isKnownGE has answered true for two MN-scaled quantities of equal magnitude
C6_witness ==
    /\ op = "isKnownGE"
    /\ LHS.Scale = ScaleID_MN
    /\ RHS.Scale = ScaleID_MN
    /\ LHS.Quantity = RHS.Quantity
    /\ out = TRUE

(***************************************************************************)
(* C7: for all a, b satisfying the addition precondition, (a + b) - b == a *)
(* under operator== (magnitude and scale tag), also when a is zero with a  *)
(* tag other than b's.                                                     *)
(***************************************************************************)
C7_plus_then_minus_restores ==
    (op = "(a+b)-b" /\ Compatible(LHS, RHS)) =>
        fatal = "" /\ opEq(out, LHS)

(***************************************************************************)
(* C7 as amended: for all a, b satisfying the addition precondition,       *)
(* (a + b) - b completes with a's magnitude; it equals a under operator==  *)
(* unless a is zero, b is non-zero and their tags differ, and then it is   *)
(* the zero quantity carrying b's tag.                                     *)
(***************************************************************************)
C7_amended ==
    (op = "(a+b)-b" /\ Compatible(LHS, RHS)) =>
        /\ fatal = ""
        /\ out.Quantity = LHS.Quantity
        /\ IF isZero(LHS) /\ isNonZero(RHS) /\ LHS.Scale # RHS.Scale
           THEN out = get(0, RHS.Scale)
           ELSE opEq(out, LHS)

\* (a + b) - b has been computed for a zero V-scaled a and a non-zero fixed b
C7_witness ==
    /\ op = "(a+b)-b"
    /\ LHS = get(0, ScaleID_V)
    /\ RHS.Scale = ScaleID_None
    /\ isNonZero(RHS)
    /\ out = get(0, ScaleID_None)

(***************************************************************************)
(* C8: for all a, b satisfying the addition precondition, a + b == b + a   *)
(* under operator== (magnitude and scale tag), also when both are zero     *)
(* with different tags.                                                    *)
(***************************************************************************)
C8_plus_commutes ==
    (op = "a+b,b+a" /\ Compatible(LHS, RHS)) =>
        fatal = "" /\ opEq(out.ab, out.ba)

(***************************************************************************)
(* C8 as amended: for all a, b satisfying the addition precondition, both  *)
(* sums complete with the same magnitude; a + b == b + a under operator==  *)
(* unless a and b are both zero with different tags, and then each sum is  *)
(* its own left operand.                                                   *)
(***************************************************************************)
C8_amended ==
    (op = "a+b,b+a" /\ Compatible(LHS, RHS)) =>
        /\ fatal = ""
        /\ out.ab.Quantity = out.ba.Quantity
        /\ IF isZero(LHS) /\ isZero(RHS) /\ LHS.Scale # RHS.Scale
           THEN out.ab = LHS /\ out.ba = RHS
           ELSE opEq(out.ab, out.ba)

\* both sums have been computed for a zero V-scaled a and a zero M-scaled b
C8_witness ==
    /\ op = "a+b,b+a"
    /\ LHS = get(0, ScaleID_V)
    /\ RHS = get(0, ScaleID_M)
    /\ out.ab = LHS
    /\ out.ba = RHS

(***************************************************************************)
(* C9: +, -, += and -= fail with "Incompatible types" exactly when both    *)
(* operands are non-zero with different tags; otherwise they complete, the *)
(* result carries the tag of every non-zero operand, and a compound        *)
(* assignment stores the result in its left operand.  A failed compound    *)
(* assignment leaves its left operand as it was.                           *)
(***************************************************************************)
C9_incompatible_exactly ==
    [][op' \in {"+", "-", "+=", "-="} =>
        LET bad == isNonZero(LHS) /\ isNonZero(RHS) /\ LHS.Scale # RHS.Scale
        IN  /\ fatal' = (IF bad THEN IncompatibleTypes ELSE "")
            /\ ~bad =>
                /\ isNonZero(LHS) => out'.Scale = LHS.Scale
                /\ isNonZero(RHS) => out'.Scale = RHS.Scale
                /\ out'.Quantity =
                     (IF op' \in {"+", "+="}
                      THEN LHS.Quantity + RHS.Quantity
                      ELSE LHS.Quantity - RHS.Quantity) % Modulus
            /\ op' \in {"+=", "-="} => LHS' = (IF bad THEN LHS ELSE out')
            /\ op' \in {"+", "-"} => LHS' = LHS
    ]_vars

\* += has died in its assertion on V x n and M x m, n and m non-zero
C9_witness ==
    /\ op = "+="
    /\ fatal = IncompatibleTypes
    /\ LHS.Scale = ScaleID_V
    /\ RHS.Scale = ScaleID_M
    /\ isNonZero(LHS)
    /\ isNonZero(RHS)

(***************************************************************************)
(* C10: after any sequence of += and -= none of which violated the         *)
(* precondition, the accumulator's tag is the tag of the most recent       *)
(* operand of non-zero magnitude, or its initial tag when every operand    *)
(* was zero; and after a single step in which exactly one of the two       *)
(* operands is non-zero the result carries that operand's tag.             *)
(***************************************************************************)
NonZeroSteps == {i \in 1 .. Len(hist) : isNonZero(hist[i])}

MostRecentNonZero == CHOOSE i \in NonZeroSteps : \A j \in NonZeroSteps : j <= i

C10_tag_of_last_nonzero_operand ==
    fatal = "" =>
        /\ LHS.Scale = (IF NonZeroSteps = {}
                        THEN initial.Scale
                        ELSE hist[MostRecentNonZero].Scale)
        /\ (Len(hist) = 1 /\ isNonZero(initial) /\ isZero(hist[1])) =>
               LHS.Scale = initial.Scale
        /\ (Len(hist) = 1 /\ isZero(initial) /\ isNonZero(hist[1])) =>
               LHS.Scale = hist[1].Scale

\* a zero N-scaled accumulator has taken a non-zero M operand, then a zero V one
C10_witness ==
    /\ fatal = ""
    /\ Len(hist) >= 2
    /\ initial = get(0, ScaleID_N)
    /\ hist[1].Scale = ScaleID_M
    /\ isNonZero(hist[1])
    /\ hist[2] = get(0, ScaleID_V)
    /\ LHS.Scale = ScaleID_M

(***************************************************************************)
(* C11: operator*, operator*=, multiplyCoefficientBy, divideCoefficientBy, *)
(* getWithIncrement and coefficientNextPowerOf2 return a quantity with the *)
(* tag of their input, for every tag and every scalar (a multiplier of 0   *)
(* included); *= stores it in its left operand, the others leave their     *)
(* input alone.  The only call that can fail to return is a division by 0. *)
(***************************************************************************)
TagKeepingCalls ==
    {"*", "*=", "getWithIncrement", "multiplyCoefficientBy",
     "divideCoefficientBy", "coefficientNextPowerOf2"}

C11_magnitude_calls_keep_tag ==
    [][op' \in TagKeepingCalls =>
        /\ fatal' = "" =>
            /\ out'.Scale = LHS.Scale
            /\ LHS' = (IF op' = "*=" THEN out' ELSE LHS)
        /\ fatal' # "" => (op' = "divideCoefficientBy" /\ RHS.Quantity = 0)
    ]_vars

\* a non-zero MN-scaled quantity has been multiplied by 0
C11_witness ==
    /\ op = "*"
    /\ RHS.Quantity = 0
    /\ LHS.Scale = ScaleID_MN
    /\ isNonZero(LHS)
    /\ out = get(0, ScaleID_MN)

(***************************************************************************)
(* C12: getFixedValue returns the magnitude when the tag is None or the    *)
(* magnitude is zero, and dies in its assertion exactly when the quantity  *)
(* has another tag and a non-zero magnitude.                               *)
(***************************************************************************)
C12_getFixedValue ==
    op = "getFixedValue" =>
        IF LHS.Scale # ScaleID_None /\ LHS.Quantity # 0
        THEN fatal = NotFixed
        ELSE fatal = "" /\ out = LHS.Quantity

\* getFixedValue has returned 0 for the zero M-scaled quantity
C12_witness ==
    /\ op = "getFixedValue"
    /\ LHS = get(0, ScaleID_M)
    /\ fatal = ""
    /\ out = 0

PowersOfTwo == {2 ^ k : k \in 0 .. (WordBits - 1)}

C14_alignTo_multiple_and_tag ==
    op = "alignTo" =>
        IF RHS.Quantity = 0
        THEN fatal = AlignIsZero
        ELSE /\ fatal = ""
             /\ out.Quantity % RHS.Quantity = 0
             /\ out.Scale = LHS.Scale

\* an MN-scaled 5 has been aligned to 3
C14_witness ==
    /\ op = "alignTo"
    /\ LHS = get(5, ScaleID_MN)
    /\ RHS.Quantity = 3
    /\ out = get(6, ScaleID_MN)

\* m is the least multiple of n that is at least x
LeastMultipleAtOrAbove(m, x, n) ==
    /\ m >= x
    /\ m % n = 0
    /\ \A k \in Magnitudes : (k >= x /\ k % n = 0) => m <= k

C16_isVector_isScalar ==
    /\ op = "isVector" =>
        out = (LHS.Quantity > 1
               \/ (LHS.Scale # ScaleID_None /\ LHS.Quantity # 0))
    /\ op = "isScalar" =>
        out = (LHS.Scale = ScaleID_None /\ LHS.Quantity = 1)

(***************************************************************************)
(* C17: StackOffset keeps its five axes independent: a single-axis factory *)
(* sets its own component only, and after any sequence of +, -, += and -=  *)
(* each component is the signed sum of the operands' values on that very   *)
(* component (getFixed(8) + getScalableV(2) has fixed 8, scalableV 2 and   *)
(* 0 elsewhere).                                                           *)
(***************************************************************************)
RECURSIVE SignedSum(_, _, _)
SignedSum(h, axis, i) ==
    IF i = 0
    THEN 0
    ELSE SignedSum(h, axis, i - 1)
         + (IF h[i].axis # axis THEN 0
            ELSE IF h[i].neg THEN 0 - h[i].k ELSE h[i].k)

C17_axes_independent ==
    soHist # <<>> =>
        \A axis \in Axes : so[axis] = SignedSum(soHist, axis, Len(soHist))

\* getFixed(8) + getScalableV(2)
C17_witness ==
    /\ op = "+"
    /\ soHist = <<[neg |-> FALSE, axis |-> "Fixed", k |-> 8],
                  [neg |-> FALSE, axis |-> "ScalableV", k |-> 2]>>
    /\ so = StackOffset(8, 2, 0, 0, 0)

(***************************************************************************)
(* C18: for all StackOffsets x, y: bool(x) is false iff all five           *)
(* components are zero; x == y iff the five components are pairwise equal; *)
(* x != y is the negation of x == y; and x + (-x) compares equal to the    *)
(* default-constructed offset.                                             *)
(***************************************************************************)
C18_comparisons ==
    /\ op = "bool" => out = ~(\A axis \in Axes : so[axis] = 0)
    /\ op = "==" => out = (\A axis \in Axes : so[axis] = soArg[axis])
    /\ op = "!=" => out = ~(\A axis \in Axes : so[axis] = soArg[axis])
    /\ op = "x+(-x)" =>
        out.isDefault /\ (\A axis \in Axes : out.sum[axis] = 0)

\* == has answered false for two offsets that differ in ScalableMN only
C18_witness ==
    /\ op = "=="
    /\ out = FALSE
    /\ so.ScalableMN # soArg.ScalableMN
    /\ \A axis \in Axes \ {"ScalableMN"} : so[axis] = soArg[axis]
    /\ so.ScalableM # 0

(***************************************************************************)
(* C19: LLT(MVT) on a matrix MVT classifies the result as matrix unless    *)
(* the matrix is non-scalable with both dimensions equal to 1, the only    *)
(* case that collapses to scalar; so a non-scalable matrix whose first     *)
(* dimension is 1 and whose second dimension exceeds 1 (1x4) is a matrix.  *)
(***************************************************************************)
C19_matrix_unless_1x1 ==
    (op = "LLT" /\ MVT_isMatrix(vt)) =>
        LET collapses ==
                /\ ~MVT_isScalableMatrix(vt)
                /\ getMatrixNumElements(vt) = 1
                /\ getMatrixNumElements2(vt) = 1
        IN  /\ out.IsMatrix = ~collapses
            /\ out.IsScalar = collapses

(***************************************************************************)
(* C20: LLT(MVT) on a vector MVT classifies the result as vector unless    *)
(* the element count is exactly 1 and non-scalable, and then as scalar     *)
(* with the element's bit-width, equal to the LLT of the element's scalar  *)
(* MVT (v1i32 gives the LLT of i32); a scalable vector of minimum count 1  *)
(* stays a vector.                                                         *)
(***************************************************************************)
C20_vector_unless_one_fixed ==
    (op = "LLT" /\ MVT_isVector(vt)) =>
        IF getVectorMinNumElements(vt) = 1 /\ ~MVT_isScalableVector(vt)
        THEN /\ out.IsScalar
             /\ ~out.IsVector
             /\ ~out.IsMatrix
             /\ ~out.IsPointer
             /\ out.RawData.ScalarSize = vt.bits
             /\ out = LLT(ScalarVT(<<vt.elt, vt.bits>>))
        ELSE /\ out.IsVector
             /\ ~out.IsScalar
             /\ ~out.IsMatrix
             /\ ~out.IsPointer
             /\ out.RawData.Elements = getVectorMinNumElements(vt)
             /\ out.RawData.Scalable = MVT_isScalableVector(vt)

\* MVT::v1i32 has been turned into the LLT of MVT::i32
C20_witness ==
    /\ op = "LLT"
    /\ vt = VectorVT(<<"i32", 32>>, 1, FALSE)
    /\ out.IsScalar
    /\ out = LLT(ScalarVT(<<"i32", 32>>))

\* how many of the four classification flags an LLT has set
FlagsSet(T) ==
    Cardinality({f \in {"IsScalar", "IsPointer", "IsVector", "IsMatrix"} : T[f]})

(***************************************************************************)
(* C21: for every MVT input the LLT built by LLT(MVT) has at most one of   *)
(* the flags IsScalar, IsPointer, IsVector, IsMatrix set: exactly one when *)
(* the input is a matrix, a vector, or a valid type that is no scalable    *)
(* target-extension type, and none, with RawData zero, when the input is   *)
(* invalid or a scalable target-extension type.                            *)
(***************************************************************************)
C21_flags_exclusive ==
    op = "LLT" =>
        IF \/ MVT_isMatrix(vt)
           \/ MVT_isVector(vt)
           \/ MVT_isValid(vt) /\ ~MVT_isScalableTargetExtVT(vt)
        THEN FlagsSet(out) = 1
        ELSE FlagsSet(out) = 0 /\ out.RawData = ZeroRawData

\* MVT::aarch64svcount has been turned into the invalid LLT
C21_witness ==
    /\ op = "LLT"
    /\ vt = aarch64svcount
    /\ FlagsSet(out) = 0
    /\ out.RawData = ZeroRawData

(***************************************************************************)
(* C22: for every enumerated MVT tag t other than the extended sentinel    *)
(* (i64x8, funcref, externref, Metadata and the placeholder tags           *)
(* included), MVT::getVT(EVT(t).getTypeForEVT(ctx), false) = t.            *)
(***************************************************************************)
C22_round_trip ==
    op = "getVT(getTypeForEVT)" => fatal = "" /\ out.res = vt

(***************************************************************************)
(* C23: getTypeForEVT is exhaustive over the simple tags: for every        *)
(* non-extended tag (Other, Glue, Untyped, iPTR and spirvbuiltin included) *)
(* it returns a structural type from its table and never reaches the       *)
(* assertion of the default branch; the default branch is taken only for   *)
(* an extended EVT, for which it returns the held handle.                  *)
(***************************************************************************)
C23_getTypeForEVT_exhaustive ==
    op = "getTypeForEVT" =>
        /\ fatal = ""
        /\ out.res # NoType
        /\ isExtended(out.args) => out.res = out.args.LLVMTy

(***************************************************************************)
(* C24: MVT::getVT honours handleUnknown for every unrecognized input: an  *)
(* integer type whose width has no tag, a vector or matrix whose shape has *)
(* no tag or whose element type is unrecognized, an unknown target         *)
(* extension type and an unknown type kind give the Other sentinel,        *)
(* without failing, when handleUnknown is true, and are fatal when it is   *)
(* false.                                                                  *)
(***************************************************************************)
EnumeratedWidths == {1, 2, 4, 8, 16, 32, 64, 128}

EnumeratedCounts == {1, 2, 4, 8, 16}

Unrecognized(Ty) ==
    CASE Ty.id = "IntegerTyID" -> Ty.bits \notin EnumeratedWidths
      [] Ty.id \in {"FixedVectorTyID", "ScalableVectorTyID"} ->
            \/ Ty.elt \notin {IntegerType(8), IntegerType(32),
                               PrimitiveType("FloatTyID")}
            \/ Ty.n \notin EnumeratedCounts
      [] Ty.id = "ScalableMatrixTyID" ->
            \/ Ty.elt \notin {IntegerType(8), IntegerType(32)}
            \/ Ty.n # 1
            \/ Ty.n2 \notin EnumeratedCounts
      [] Ty.id = "TargetExtTyID" ->
            Ty.name \notin {"aarch64.svcount", "spirv.Image", "spirv.Sampler"}
      [] OTHER -> Ty.id \in {"MetadataTyID", "LabelTyID", "TokenTyID"}

C24_handleUnknown_honoured ==
    (op = "getVT" /\ Unrecognized(out.args.Ty)) =>
        IF out.args.HandleUnknown
        THEN fatal = "" /\ out.res = NamedVT("Other")
        ELSE fatal # ""

(***************************************************************************)
(* C25: for every integer type whose width is not in the MVT enumeration   *)
(* (17, say) EVT::getEVT returns an EVT with isExtended() true whose       *)
(* getExtendedSizeInBits() is TypeSize::getFixed(width); for every         *)
(* enumerated width it returns the simple EVT equal to MVT::getVT of the   *)
(* same type.                                                              *)
(***************************************************************************)
C25_integer_getEVT ==
    /\ (op = "getEVT" /\ out.args.Ty.id = "IntegerTyID") =>
        IF out.args.Ty.bits \in EnumeratedWidths
        THEN /\ fatal = ""
             /\ ~isExtended(out.res)
             /\ getVT(out.args.Ty, out.args.HandleUnknown).fatal = ""
             /\ out.res.V = getVT(out.args.Ty, out.args.HandleUnknown).val
             /\ out.res.V.kind = "scalar"
             /\ out.res.V.bits = out.args.Ty.bits
        ELSE /\ fatal = ""
             /\ isExtended(out.res)
             /\ getExtendedSizeInBits(out.res) =
                    [fatal |-> "",
                     val |-> get(out.args.Ty.bits, ScaleID_None)]
    /\ (op = "getExtendedSizeInBits" /\ out.args.Ty.id = "IntegerTyID") =>
        /\ fatal = ""
        /\ out.res = get(out.args.Ty.bits, ScaleID_None)

\* the size of the extended EVT of a 17-bit integer has been asked for
C25_witness ==
    /\ op = "getExtendedSizeInBits"
    /\ out.args.Ty = IntegerType(17)
    /\ isExtended(out.args.E)
    /\ out.res = get(17, ScaleID_None)

(***************************************************************************)
(* C26: getEVTString is total and collision-free over the enumeration: it  *)
(* returns a string for every simple tag, and two distinct tags never      *)
(* yield the same string, two non-scalable matrix tags that differ in the  *)
(* second dimension only (m1x2xi8 and m1x4xi8) included.                   *)
(***************************************************************************)
C26_getEVTString_injective ==
    op = "getEVTString" =>
        /\ fatal = ""
        /\ out.args.a # out.args.b => out.res.a # out.res.b

(***************************************************************************)
(* C27: StackOffset::get(F, V, M, N, MN) returns an offset whose five      *)
(* components read back the five arguments: getFixed() = F, getScalableV() *)
(* = V, getScalableM() = M, getScalableN() = N, getScalableMN() = MN, for  *)
(* all argument values, in particular when M and N differ.                 *)
(***************************************************************************)
C27_get_reads_back ==
    op = "get" =>
        /\ out.Fixed = so.Fixed
        /\ out.ScalableV = so.ScalableV
        /\ out.ScalableM = so.ScalableM
        /\ out.ScalableN = so.ScalableN
        /\ out.ScalableMN = so.ScalableMN

(***************************************************************************)
(* C28: print emits a prefix fixed by the scale tag and distinct for each  *)
(* of the five tags (nothing for None, "vscale x " for V, "mscale x " for  *)
(* M, "nscale x " for N, "mnscale x " for MN) followed by the magnitude,   *)
(* so two quantities print the same text only if they are equal.           *)
(***************************************************************************)
Prefix(s) ==
    CASE s = ScaleID_None -> ""
      [] s = ScaleID_V -> "vscale x "
      [] s = ScaleID_M -> "mscale x "
      [] s = ScaleID_N -> "nscale x "
      [] s = ScaleID_MN -> "mnscale x "

C28_print_prefix_per_tag ==
    op = "print" =>
        /\ out.lhs = Prefix(LHS.Scale) \o ToString(LHS.Quantity)
        /\ out.rhs = Prefix(RHS.Scale) \o ToString(RHS.Quantity)
        /\ out.lhs = out.rhs => LHS = RHS

(***************************************************************************)
(* C29: a.hasKnownScalarFactor(b) returns a boolean without dividing by    *)
(* zero for every pair a, b, a zero magnitude of b included, and returns   *)
(* true exactly when a and b carry the same tag and a's magnitude is an    *)
(* integer multiple of b's; when it is true,                               *)
(* b.multiplyCoefficientBy(a.getKnownScalarFactor(b)) = a, and when it is  *)
(* false getKnownScalarFactor fails its assertion.                         *)
(***************************************************************************)
IsMultiple(A, B) ==
    /\ A.Scale = B.Scale
    /\ \E k \in Magnitudes : A.Quantity = k * B.Quantity

C29_scalar_factor ==
    /\ op = "hasKnownScalarFactor" =>
        fatal = "" /\ out = IsMultiple(LHS, RHS)
    /\ op = "getKnownScalarFactor" =>
        IF IsMultiple(LHS, RHS)
        THEN fatal = "" /\ multiplyCoefficientBy(RHS, out) = LHS
        ELSE fatal = NotAKnownFactor

(***************************************************************************)
(* C30: the ordering predicates are mutually consistent for every pair a,  *)
(* b over all five tags: isKnownLT(a, b) = isKnownGT(b, a) and             *)
(* isKnownLE(a, b) = isKnownGE(b, a); and no pair makes both isKnownLT(a,  *)
(* b) and isKnownGE(a, b) true, nor both isKnownGT(a, b) and               *)
(* isKnownLE(a, b).                                                        *)
(***************************************************************************)
C30_orderings_consistent ==
    op = "orderings" =>
        /\ out.lt_ab = out.gt_ba
        /\ out.le_ab = out.ge_ba
        /\ ~(out.lt_ab /\ out.ge_ab)
        /\ ~(out.gt_ab /\ out.le_ab)

====
